---- MODULE Spec2Model ----
(***************************************************************************)
(* Model of tokenizer_server.py: the module-level model registry filled by *)
(* load_models, and the Flask request handlers that read it.               *)
(*                                                                         *)
(* Strings are sequences of one-symbol strings.  Three stand-ins are used  *)
(* for non-ASCII symbols of the byte-level vocabulary:                     *)
(*     "G" is U+0120 (the leading-space marker), "C" is U+010A (the        *)
(*     byte-level form of a newline), "_" is U+2581 (sentencepiece).       *)
(* A special token ("<s>", "[MASK]", ...) is one symbol.                   *)
(***************************************************************************)
EXTENDS Integers, Sequences, FiniteSets, TLC

\* ------------------------------------------------------------------ bounds
MaxLen == 3

MaxPredictLen == 2

MaxPositions == 2

MaxTexts == 2

NumWeights == 2

\* ----------------------------------------------------------- string helpers
RECURSIVE Concat(_)
Concat(ss) == IF ss = <<>> THEN <<>> ELSE Head(ss) \o Concat(Tail(ss))

RECURSIVE SeqsUpTo(_, _)
SeqsUpTo(n, S) ==
    IF n = 0 THEN {<<>>}
    ELSE LET shorter == SeqsUpTo(n - 1, S)
         IN  shorter \cup {Append(s, x) : s \in {t \in shorter : Len(t) = n - 1}, x \in S}

IsPrefixAt(s, sub, i) ==
    /\ i + Len(sub) <= Len(s)
    /\ \A j \in 1..Len(sub) : s[i + j] = sub[j]

\* str.find(sub) with the start argument left out
FindFromStart(s, sub, start) ==
    LET hits == {i \in 0..Len(s) : IsPrefixAt(s, sub, i)}
    IN  IF hits = {} THEN -1 ELSE CHOOSE i \in hits : \A j \in hits : i <= j

\* a find that reports the index before the match
FindOffByOne(s, sub, start) ==
    LET hits == {i \in start..Len(s) : IsPrefixAt(s, sub, i)}
        first == CHOOSE i \in hits : \A j \in hits : i <= j
    IN  IF hits = {} THEN -1 ELSE IF first > 0 THEN first - 1 ELSE 0

\* str.find(sub, start): lowest 0-based index >= start where sub occurs, or -1
Find(s, sub, start) ==
    LET hits == {i \in start..Len(s) : IsPrefixAt(s, sub, i)}
    IN  IF hits = {} THEN -1 ELSE CHOOSE i \in hits : \A j \in hits : i <= j

\* str.replace(ch, ''): every occurrence of the one-symbol string ch removed
RemoveAll(s, ch) == SelectSeq(s, LAMBDA c : c # ch)

IsSpace(c) == c \in {" ", "\n"}

RECURSIVE LStrip(_)
LStrip(s) == IF s # <<>> /\ IsSpace(Head(s)) THEN LStrip(Tail(s)) ELSE s

RECURSIVE RStrip(_)
RStrip(s) ==
    IF s # <<>> /\ IsSpace(s[Len(s)]) THEN RStrip(SubSeq(s, 1, Len(s) - 1)) ELSE s

Strip(s) == RStrip(LStrip(s))

\* ---------------------------------------------------------------- tokenizers
None == "None"

\* the token and the id a tokenizer reports for a boundary it does not define
NoToken == <<None>>

NoId == -1

Kinds == {"roberta", "distilbert"}

\* vocabularies, id = index - 1
RobertaVocab ==
    << <<"<s>">>, <<"<pad>">>, <<"</s>">>, <<"<unk>">>,
       <<"a">>, <<"G">>, <<"C">>, <<"G", "a">>, <<"<mask>">> >>

DistilVocab ==
    << <<"[PAD]">>, <<"[UNK]">>, <<"[CLS]">>, <<"[SEP]">>, <<"[MASK]">>,
       <<"a">>, <<"#", "#", "a">> >>

Vocab(kind) == IF kind = "roberta" THEN RobertaVocab ELSE DistilVocab

VocabIds(kind) == 0..(Len(Vocab(kind)) - 1)

bos_token(kind) == IF kind = "roberta" THEN <<"<s>">> ELSE NoToken

eos_token(kind) == IF kind = "roberta" THEN <<"</s>">> ELSE NoToken

cls_token(kind) == IF kind = "roberta" THEN <<"<s>">> ELSE <<"[CLS]">>

sep_token(kind) == IF kind = "roberta" THEN <<"</s>">> ELSE <<"[SEP]">>

mask_token(kind) == IF kind = "roberta" THEN <<"<mask>">> ELSE <<"[MASK]">>

unk_token(kind) == IF kind = "roberta" THEN <<"<unk>">> ELSE <<"[UNK]">>

SpecialSymbols(kind) ==
    IF kind = "roberta" THEN {"<s>", "<pad>", "</s>", "<unk>", "<mask>"}
    ELSE {"[PAD]", "[UNK]", "[CLS]", "[SEP]", "[MASK]"}

TokenId(kind, tok) ==
    LET V == Vocab(kind)
        hits == {i \in 1..Len(V) : V[i] = tok}
        unk == CHOOSE i \in 1..Len(V) : V[i] = unk_token(kind)
    IN  IF tok = NoToken THEN NoId
        ELSE IF hits = {} THEN unk - 1
        ELSE (CHOOSE i \in hits : TRUE) - 1

bos_token_id(kind) == TokenId(kind, bos_token(kind))

eos_token_id(kind) == TokenId(kind, eos_token(kind))

mask_token_id(kind) == TokenId(kind, mask_token(kind))

convert_tokens_to_ids(kind, tokens) == [i \in 1..Len(tokens) |-> TokenId(kind, tokens[i])]

convert_ids_to_tokens(kind, id) == Vocab(kind)[id + 1]

\* byte-level BPE with the single merge (G, a): a space joins the letter after it
RECURSIVE TokenizeRoberta(_)
TokenizeRoberta(s) ==
    IF s = <<>> THEN <<>>
    ELSE LET c == Head(s)
             next == IF Len(s) >= 2 THEN s[2] ELSE None
         IN  IF c \in SpecialSymbols("roberta") THEN << <<c>> >> \o TokenizeRoberta(Tail(s))
             ELSE IF c = " " /\ next = "<mask>" THEN TokenizeRoberta(Tail(s))
             ELSE IF c = " " /\ next = "a" THEN << <<"G", "a">> >> \o TokenizeRoberta(Tail(Tail(s)))
             ELSE IF c = " " THEN << <<"G">> >> \o TokenizeRoberta(Tail(s))
             ELSE IF c = "\n" THEN << <<"C">> >> \o TokenizeRoberta(Tail(s))
             ELSE << <<c>> >> \o TokenizeRoberta(Tail(s))

\* whitespace split, then WordPiece over the pieces "a" and "##a"
RECURSIVE TokenizeDistil(_, _)
TokenizeDistil(s, wordStart) ==
    IF s = <<>> THEN <<>>
    ELSE LET c == Head(s)
         IN  IF IsSpace(c) THEN TokenizeDistil(Tail(s), TRUE)
             ELSE IF c \in SpecialSymbols("distilbert") THEN << <<c>> >> \o TokenizeDistil(Tail(s), TRUE)
             ELSE IF wordStart THEN << <<c>> >> \o TokenizeDistil(Tail(s), FALSE)
             ELSE << <<"#", "#", c>> >> \o TokenizeDistil(Tail(s), FALSE)

tokenize(kind, text) ==
    IF kind = "roberta" THEN TokenizeRoberta(text) ELSE TokenizeDistil(text, TRUE)

ByteDecode(c) == IF c = "G" THEN " " ELSE IF c = "C" THEN "\n" ELSE c

RECURSIVE JoinDistil(_, _)
JoinDistil(tokens, first) ==
    IF tokens = <<>> THEN <<>>
    ELSE LET t == Head(tokens)
             cont == ~first /\ Len(t) >= 2 /\ t[1] = "#" /\ t[2] = "#"
         IN  (IF cont THEN SubSeq(t, 3, Len(t))
              ELSE IF first THEN t ELSE <<" ">> \o t) \o JoinDistil(Tail(tokens), FALSE)

\* roberta: join, then decode the byte symbols; distilbert: " ".join(tokens).replace(" ##", "").strip()
convert_tokens_to_string(kind, tokens) ==
    IF kind = "roberta"
    THEN LET joined == Concat(tokens) IN [i \in 1..Len(joined) |-> ByteDecode(joined[i])]
    ELSE Strip(JoinDistil(tokens, TRUE))

\* tokenizer(text): the ids of the text with the tokenizer's boundary pair added
encode(kind, text) ==
    <<TokenId(kind, cls_token(kind))>> \o convert_tokens_to_ids(kind, tokenize(kind, text))
        \o <<TokenId(kind, sep_token(kind))>>

\* ------------------------------------------------------------------- state
VARIABLES
    tokenizer,        \* global handle: None, "jina", "roberta" or "distilbert"
    mlm_model,        \* global handle: None, "roberta" or "distilbert"
    mlm_tokenizer,    \* global handle: None, "roberta" or "distilbert"
    embedding_model,  \* global handle: None or "jina"
    entry,            \* "main": run as a script; "imported": imported and served by a host
    pc,               \* position of the process
    jina_loaded,      \* local of load_models
    load_result,      \* return value of load_models: None (not returned), "True" or "False"
    attempted,        \* the from_pretrained calls made so far, in order, with their outcome
    req,              \* the request being answered
    resp,             \* the response to it
    calls,            \* calls made on the handles while answering it
    locals            \* the handler's local values when it returned

registry == <<tokenizer, mlm_model, mlm_tokenizer, embedding_model>>

vars == <<tokenizer, mlm_model, mlm_tokenizer, embedding_model, entry, pc, jina_loaded,
          load_result, attempted, req, resp, calls, locals>>

NoReq == [endpoint |-> None]

\* the body of a response that carries no result (an error message alone, or a file)
NoBody == [success |-> FALSE]

\* the locals of a handler that returned before it computed anything
NoLocals == [returned_early |-> TRUE]

NoResp == [endpoint |-> None, status |-> 0, error |-> None, body |-> NoBody]

NoCalls == [tokenizer |-> 0, model |-> 0, embedding |-> 0, on_none |-> FALSE]

request_vars == <<req, resp, calls, locals>>

load_vars == <<jina_loaded, load_result, attempted>>

Init ==
    /\ tokenizer = None
    /\ mlm_model = None
    /\ mlm_tokenizer = None
    /\ embedding_model = None
    /\ entry \in {"main", "imported"}
    /\ pc = "start"
    /\ jina_loaded = FALSE
    /\ load_result = None
    /\ attempted = <<>>
    /\ req = NoReq
    /\ resp = NoResp
    /\ calls = NoCalls
    /\ locals = NoLocals

\* ------------------------------------------------------------- load_models
\* run as a script, the module calls load_models before anything else
CallLoadModels ==
    /\ pc = "start"
    /\ entry = "main"
    /\ pc' = "jina_tokenizer"
    /\ UNCHANGED <<registry, entry, load_vars, request_vars>>

\* imported by a host (a WSGI server, a test client), the module runs nothing below
\* the __main__ guard: the app is served with the module globals as they are
ServeWithoutLoad ==
    /\ pc = "start"
    /\ entry = "imported"
    /\ pc' = "serving"
    /\ UNCHANGED <<registry, entry, load_vars, request_vars>>

LoadJinaTokenizer ==
    /\ pc = "jina_tokenizer"
    /\ \E ok \in BOOLEAN :
          /\ attempted' = Append(attempted, [name |-> "jina_tokenizer", ok |-> ok])
          /\ tokenizer' = IF ok THEN "jina" ELSE tokenizer
          /\ jina_loaded' = ok
    /\ pc' = "roberta_tokenizer"
    /\ UNCHANGED <<mlm_model, mlm_tokenizer, embedding_model, entry, load_result, request_vars>>

LoadRobertaTokenizer ==
    /\ pc = "roberta_tokenizer"
    /\ \E ok \in BOOLEAN :
          /\ attempted' = Append(attempted, [name |-> "roberta_tokenizer", ok |-> ok])
          /\ mlm_tokenizer' = IF ok THEN "roberta" ELSE mlm_tokenizer
          /\ pc' = IF ok THEN "roberta_model" ELSE "distilbert_tokenizer"
    /\ UNCHANGED <<tokenizer, mlm_model, embedding_model, entry, jina_loaded, load_result,
                   request_vars>>

\* a RoBERTa model failure that gives up instead of falling back to DistilBERT
LoadRobertaModelNoFallback ==
    /\ pc = "roberta_model"
    /\ \E ok \in BOOLEAN :
          /\ attempted' = Append(attempted, [name |-> "roberta_model", ok |-> ok])
          /\ mlm_model' = IF ok THEN "roberta" ELSE mlm_model
          /\ pc' = IF ok THEN "select_tokenizer" ELSE "returned"
          /\ load_result' = IF ok THEN load_result ELSE "False"
    /\ UNCHANGED <<tokenizer, mlm_tokenizer, embedding_model, entry, jina_loaded, request_vars>>

LoadRobertaModel ==
    /\ pc = "roberta_model"
    /\ \E ok \in BOOLEAN :
          /\ attempted' = Append(attempted, [name |-> "roberta_model", ok |-> ok])
          /\ mlm_model' = IF ok THEN "roberta" ELSE mlm_model
          /\ pc' = IF ok THEN "select_tokenizer" ELSE "distilbert_tokenizer"
    /\ UNCHANGED <<tokenizer, mlm_tokenizer, embedding_model, entry, jina_loaded, load_result,
                   request_vars>>

\* a DistilBERT tokenizer failure that goes on to the DistilBERT model
LoadDistilbertTokenizerNoAbort ==
    /\ pc = "distilbert_tokenizer"
    /\ \E ok \in BOOLEAN :
          /\ attempted' = Append(attempted, [name |-> "distilbert_tokenizer", ok |-> ok])
          /\ mlm_tokenizer' = IF ok THEN "distilbert" ELSE mlm_tokenizer
          /\ pc' = "distilbert_model"
    /\ UNCHANGED <<tokenizer, mlm_model, embedding_model, entry, jina_loaded, load_result,
                   request_vars>>

LoadDistilbertTokenizer ==
    /\ pc = "distilbert_tokenizer"
    /\ \E ok \in BOOLEAN :
          /\ attempted' = Append(attempted, [name |-> "distilbert_tokenizer", ok |-> ok])
          /\ mlm_tokenizer' = IF ok THEN "distilbert" ELSE mlm_tokenizer
          /\ pc' = IF ok THEN "distilbert_model" ELSE "returned"
          /\ load_result' = IF ok THEN load_result ELSE "False"
    /\ UNCHANGED <<tokenizer, mlm_model, embedding_model, entry, jina_loaded, request_vars>>

LoadDistilbertModel ==
    /\ pc = "distilbert_model"
    /\ \E ok \in BOOLEAN :
          /\ attempted' = Append(attempted, [name |-> "distilbert_model", ok |-> ok])
          /\ mlm_model' = IF ok THEN "distilbert" ELSE mlm_model
          /\ pc' = IF ok THEN "select_tokenizer" ELSE "returned"
          /\ load_result' = IF ok THEN load_result ELSE "False"
    /\ UNCHANGED <<tokenizer, mlm_tokenizer, embedding_model, entry, jina_loaded, request_vars>>

\* if Jina failed the MLM tokenizer serves every task; else the embedding model is tried
SelectTokenizer ==
    /\ pc = "select_tokenizer"
    /\ tokenizer' = IF ~jina_loaded THEN mlm_tokenizer ELSE tokenizer
    /\ pc' = IF jina_loaded THEN "embedding_model" ELSE "final_setup"
    /\ UNCHANGED <<mlm_model, mlm_tokenizer, embedding_model, entry, load_vars, request_vars>>

LoadEmbeddingModel ==
    /\ pc = "embedding_model"
    /\ \E ok \in BOOLEAN :
          /\ embedding_model' = IF ok THEN "jina" ELSE embedding_model
          /\ attempted' = Append(attempted, [name |-> "embedding_model", ok |-> ok])
    /\ pc' = "final_setup"
    /\ UNCHANGED <<tokenizer, mlm_model, mlm_tokenizer, entry, jina_loaded, load_result,
                   request_vars>>

\* the final log lines read attributes of the handles; a None handle raises, and the
\* outer handler turns that into a False return
FinalSetup ==
    /\ pc = "final_setup"
    /\ load_result' = IF tokenizer # None /\ mlm_model # None /\ mlm_tokenizer # None
                      THEN "True" ELSE "False"
    /\ pc' = "returned"
    /\ UNCHANGED <<registry, entry, jina_loaded, attempted, request_vars>>

\* a script that starts the server whatever load_models returned
MainServesAlways ==
    /\ pc = "returned"
    /\ pc' = "serving"
    /\ jina_loaded' = FALSE
    /\ attempted' = <<>>
    /\ UNCHANGED <<registry, entry, load_result, request_vars>>

\* the script serves only after a True return and exits otherwise.  The frame of
\* the finished call (jina_loaded, and the record of its attempts) is gone.
Main ==
    /\ pc = "returned"
    /\ pc' = IF load_result = "True" THEN "serving" ELSE "exited"
    /\ jina_loaded' = FALSE
    /\ attempted' = <<>>
    /\ UNCHANGED <<registry, entry, load_result, request_vars>>

load_models ==
    \/ LoadJinaTokenizer
    \/ LoadRobertaTokenizer
    \/ LoadRobertaModel
    \/ LoadDistilbertTokenizer
    \/ LoadDistilbertModel
    \/ SelectTokenizer
    \/ LoadEmbeddingModel
    \/ FinalSetup

\* ------------------------------------------------- /tokenize_display: alignment
\* token.replace(U+0120, '').replace(U+2581, '')
CleanToken(token) == RemoveAll(RemoveAll(token, "G"), "_")

\* an alignment loop that moves the cursor past a token it did not find
RECURSIVE AlignLoopAdvancesOnMiss(_, _, _, _, _, _, _)
AlignLoopAdvancesOnMiss(tokens, token_ids, reconstructed, i, current_pos, token_positions, cursors) ==
    IF i > Len(tokens) THEN [token_positions |-> token_positions, cursors |-> cursors]
    ELSE LET token == tokens[i]
             clean_token == CleanToken(token)
             start_pos == IF clean_token # <<>> THEN Find(reconstructed, clean_token, current_pos)
                          ELSE -1
             end_pos == start_pos + Len(clean_token)
             found == clean_token # <<>> /\ start_pos # -1
             item == [token |-> clean_token, token_id |-> token_ids[i], start |-> start_pos,
                      end |-> end_pos, original_token |-> token]
             next_pos == IF found THEN end_pos ELSE current_pos + Len(clean_token)
         IN  AlignLoopAdvancesOnMiss(tokens, token_ids, reconstructed, i + 1, next_pos,
                       IF found THEN Append(token_positions, item) ELSE token_positions,
                       Append(cursors, next_pos))

\* an alignment loop that takes the id by the number of entries made, not by i
RECURSIVE AlignLoopIdByEntry(_, _, _, _, _, _, _)
AlignLoopIdByEntry(tokens, token_ids, reconstructed, i, current_pos, token_positions, cursors) ==
    IF i > Len(tokens) THEN [token_positions |-> token_positions, cursors |-> cursors]
    ELSE LET token == tokens[i]
             clean_token == CleanToken(token)
             start_pos == IF clean_token # <<>> THEN Find(reconstructed, clean_token, current_pos)
                          ELSE -1
             end_pos == start_pos + Len(clean_token)
             found == clean_token # <<>> /\ start_pos # -1
             item == [token |-> clean_token, token_id |-> token_ids[Len(token_positions) + 1],
                      start |-> start_pos, end |-> end_pos, original_token |-> token]
             next_pos == IF found THEN end_pos ELSE current_pos
         IN  AlignLoopIdByEntry(tokens, token_ids, reconstructed, i + 1, next_pos,
                       IF found THEN Append(token_positions, item) ELSE token_positions,
                       Append(cursors, next_pos))

\* the alignment loop from iteration i on; cursors collects current_pos after each iteration
RECURSIVE AlignLoop(_, _, _, _, _, _, _)
AlignLoop(tokens, token_ids, reconstructed, i, current_pos, token_positions, cursors) ==
    IF i > Len(tokens) THEN [token_positions |-> token_positions, cursors |-> cursors]
    ELSE LET token == tokens[i]
             clean_token == CleanToken(token)
             start_pos == IF clean_token # <<>> THEN Find(reconstructed, clean_token, current_pos)
                          ELSE -1
             end_pos == start_pos + Len(clean_token)
             found == clean_token # <<>> /\ start_pos # -1
             item == [token |-> clean_token, token_id |-> token_ids[i], start |-> start_pos,
                      end |-> end_pos, original_token |-> token]
             next_pos == IF found THEN end_pos ELSE current_pos
         IN  AlignLoop(tokens, token_ids, reconstructed, i + 1, next_pos,
                       IF found THEN Append(token_positions, item) ELSE token_positions,
                       Append(cursors, next_pos))

\* ------------------------------------------------------ the MLM forward pass
RECURSIVE Pow2(_)
Pow2(n) == IF n = 0 THEN 1 ELSE 2 * Pow2(n - 1)

\* logits[row][v] of the model with weights w on input_ids (rows and ids 0-based)
Logit(w, input_ids, row, v) ==
    ((input_ids[row + 1] + 3) * (v + 1) + (row + w + 1) * v * v + w * v) % 5

Logits(kind, w, input_ids, row) == [v \in VocabIds(kind) |-> Logit(w, input_ids, row, v)]

RECURSIVE SumOver(_, _)
SumOver(f, S) ==
    IF S = {} THEN 0 ELSE LET x == CHOOSE y \in S : TRUE IN f[x] + SumOver(f, S \ {x})

\* softmax as exact fractions num/den with a common denominator
Softmax(logits) ==
    LET weight == [v \in DOMAIN logits |-> Pow2(logits[v])]
        total == SumOver(weight, DOMAIN logits)
    IN  [v \in DOMAIN logits |-> [num |-> weight[v], den |-> total]]

\* topk with largest=False: the k smallest, smallest first
RECURSIVE TopKSmallest(_, _, _, _)
TopKSmallest(values, k, S, lowFirst) ==
    IF k = 0 \/ S = {} THEN <<>>
    ELSE LET best == {v \in S : \A u \in S : values[u] >= values[v]}
             pick == IF lowFirst THEN CHOOSE v \in best : \A u \in best : v <= u
                     ELSE CHOOSE v \in best : \A u \in best : v >= u
         IN  <<pick>> \o TopKSmallest(values, k - 1, S \ {pick}, lowFirst)

\* torch.topk(values, k).indices: the k largest, largest first; equal values in index
\* order, ascending or descending (the order of equal elements is not specified)
RECURSIVE TopK(_, _, _, _)
TopK(values, k, S, lowFirst) ==
    IF k = 0 \/ S = {} THEN <<>>
    ELSE LET best == {v \in S : \A u \in S : values[u] <= values[v]}
             pick == IF lowFirst THEN CHOOSE v \in best : \A u \in best : v <= u
                     ELSE CHOOSE v \in best : \A u \in best : v >= u
         IN  <<pick>> \o TopK(values, k - 1, S \ {pick}, lowFirst)

\* ---------------------------------------------------------- request inputs
Chars == {"a", " ", "\n"}

SpecialTexts(kind) ==
    IF kind \in Kinds
    THEN {cls_token(kind) \o <<" ", "a">>, <<"a", " ">> \o sep_token(kind)}
    ELSE {}

\* the non-empty texts sent to /tokenize_display
Texts == SeqsUpTo(MaxLen, Chars) \ {<<>>}

\* the non-empty texts sent to the prediction endpoints of a server whose MLM tokenizer is kind
PredictTexts(kind) == (SeqsUpTo(MaxPredictLen, {"a", " "}) \ {<<>>}) \cup SpecialTexts(kind)

PositionLists(text) == SeqsUpTo(MaxPositions, (-2)..(Len(text) + 1))

\* the weights a loaded MLM checkpoint may hold
Weights(model) == IF model = None THEN {0} ELSE 0..(NumWeights - 1)

Response(endpoint, status, error, body) ==
    [endpoint |-> endpoint, status |-> status, error |-> error, body |-> body]

\* list[i] of Python for an int i: negative indices count from the end
PyIndexOk(seq, i) == -Len(seq) <= i /\ i < Len(seq)

PyIndex(seq, i) == IF i >= 0 THEN seq[i + 1] ELSE seq[Len(seq) + i + 1]

\* a masking loop that stops after the first position
MaskLoopFirstOnly(seq, positions, mask) ==
    IF positions = <<>> THEN seq
    ELSE LET pos == Head(positions)
         IN  IF 0 <= pos /\ pos < Len(seq) THEN [seq EXCEPT ![pos + 1] = mask] ELSE seq

\* for pos in positions: if 0 <= pos < len(seq): seq[pos] = mask
RECURSIVE MaskLoop(_, _, _)
MaskLoop(seq, positions, mask) ==
    IF positions = <<>> THEN seq
    ELSE LET pos == Head(positions)
         IN  MaskLoop(IF 0 <= pos /\ pos < Len(seq) THEN [seq EXCEPT ![pos + 1] = mask] ELSE seq,
                      Tail(positions), mask)

\* a check that lets every text through
no_text_unchecked(text) == FALSE

\* `if not text`: the text field is missing or empty
no_text(text) == text = <<>>

\* ------------------------------------------------------------ /tokenize_display
tokenize_display_body(kind, text) ==
    LET tokens == tokenize(kind, text)
        token_ids == convert_tokens_to_ids(kind, tokens)
        reconstructed == convert_tokens_to_string(kind, tokens)
        loop == AlignLoop(tokens, token_ids, reconstructed, 1, 0, <<>>, <<>>)
    IN  [success |-> TRUE, text |-> text, reconstructed |-> reconstructed,
         match |-> (Strip(text) = Strip(reconstructed)),
         token_count |-> Len(loop.token_positions),
         token_positions |-> loop.token_positions,
         original_tokens |-> tokens, word_level |-> FALSE]

tokenize_display ==
    /\ pc = "serving"
    /\ \E json \in BOOLEAN, text \in Texts \cup {<<>>} :
          /\ json \/ text = <<>>
          /\ req' = [endpoint |-> "/tokenize_display", json |-> json, text |-> text]
          /\ IF ~json
             THEN /\ resp' = Response("/tokenize_display", 500, "BadRequest", NoBody)
                  /\ calls' = NoCalls
                  /\ locals' = NoLocals
             ELSE IF no_text(text)
             THEN /\ resp' = Response("/tokenize_display", 400, "No text provided", NoBody)
                  /\ calls' = NoCalls
                  /\ locals' = NoLocals
             ELSE IF mlm_tokenizer = None
             THEN /\ resp' = Response("/tokenize_display", 500, "AttributeError", NoBody)
                  /\ calls' = [NoCalls EXCEPT !.on_none = TRUE]
                  /\ locals' = NoLocals
             ELSE LET tokens == tokenize(mlm_tokenizer, text)
                      loop == AlignLoop(tokens, convert_tokens_to_ids(mlm_tokenizer, tokens),
                                        convert_tokens_to_string(mlm_tokenizer, tokens),
                                        1, 0, <<>>, <<>>)
                  IN  /\ resp' = Response("/tokenize_display", 200, None,
                                          tokenize_display_body(mlm_tokenizer, text))
                      /\ calls' = [NoCalls EXCEPT !.tokenizer = 3]
                      /\ locals' = [cursors |-> loop.cursors]
    /\ pc' = "responded"
    /\ UNCHANGED <<registry, entry, load_vars>>

\* -------------------------------------------------------------- /predict_tokens
\* one element of predictions_list
Candidate(kind, probs, idx) ==
    [token |-> convert_ids_to_tokens(kind, idx), token_id |-> idx, probability |-> probs[idx]]

\* the results.append(...) of one masked position pos that passed the range test
predict_tokens_entry(kind, w, tokens, token_ids, masked_token_ids, pos) ==
    LET adjusted_pos == pos + 1
        position_logits == Logits(kind, w, masked_token_ids, adjusted_pos)
        top_indices == TopK(position_logits, 5, DOMAIN position_logits, (w + adjusted_pos) % 2 = 0)
        probs == Softmax(position_logits)
        original_token_id == PyIndex(token_ids, pos)
    IN  [position |-> pos,
         original_token |-> PyIndex(tokens, pos),
         original_probability |-> probs[original_token_id],
         predictions |-> [j \in 1..Len(top_indices) |-> Candidate(kind, probs, top_indices[j])]]

\* the range test of the results loop
predict_tokens_in_range(tokens_with_special, pos) ==
    0 <= pos + 1 /\ pos + 1 < Len(tokens_with_special)

\* the locals of predict_tokens up to the forward pass
predict_tokens_locals(kind, text, masked_positions) ==
    LET tokens == tokenize(kind, text)
        token_ids == convert_tokens_to_ids(kind, tokens)
        tokens_with_special == <<bos_token(kind)>> \o tokens \o <<eos_token(kind)>>
        token_ids_with_special == <<bos_token_id(kind)>> \o token_ids \o <<eos_token_id(kind)>>
        adjusted_positions == [i \in 1..Len(masked_positions) |-> masked_positions[i] + 1]
    IN  [tokens |-> tokens, token_ids |-> token_ids,
         tokens_with_special |-> tokens_with_special,
         token_ids_with_special |-> token_ids_with_special,
         adjusted_positions |-> adjusted_positions,
         masked_tokens |-> MaskLoop(tokens_with_special, adjusted_positions, mask_token(kind)),
         masked_token_ids |-> MaskLoop(token_ids_with_special, adjusted_positions,
                                       mask_token_id(kind))]

predict_tokens_results(kind, w, l, masked_positions) ==
    LET kept == SelectSeq(masked_positions,
                          LAMBDA pos : predict_tokens_in_range(l.tokens_with_special, pos))
    IN  [i \in 1..Len(kept) |->
            predict_tokens_entry(kind, w, l.tokens, l.token_ids, l.masked_token_ids, kept[i])]

predict_tokens ==
    /\ pc = "serving"
    /\ \E json \in BOOLEAN, text \in PredictTexts(mlm_tokenizer) \cup {<<>>}, w \in Weights(mlm_model) :
       \E masked_positions \in PositionLists(text) :
          /\ json \/ (text = <<>> /\ masked_positions = <<>> /\ w = 0)
          /\ req' = [endpoint |-> "/predict_tokens", json |-> json, text |-> text,
                     masked_positions |-> masked_positions, w |-> w]
          /\ IF ~json
             THEN /\ resp' = Response("/predict_tokens", 500, "BadRequest", NoBody)
                  /\ calls' = NoCalls
                  /\ locals' = NoLocals
             ELSE IF no_text(text)
             THEN /\ resp' = Response("/predict_tokens", 400, "No text provided", NoBody)
                  /\ calls' = NoCalls
                  /\ locals' = NoLocals
             ELSE IF mlm_tokenizer = None
             THEN /\ resp' = Response("/predict_tokens", 500, "AttributeError", NoBody)
                  /\ calls' = [NoCalls EXCEPT !.on_none = TRUE]
                  /\ locals' = NoLocals
             ELSE \E l \in {predict_tokens_locals(mlm_tokenizer, text, masked_positions)} :
                      IF \E i \in 1..Len(l.masked_token_ids) : l.masked_token_ids[i] = NoId
                      THEN \* torch.tensor refuses a list holding None
                           /\ resp' = Response("/predict_tokens", 500, "RuntimeError", NoBody)
                           /\ calls' = [NoCalls EXCEPT !.tokenizer = 2]
                           /\ locals' = l
                      ELSE IF mlm_model = None
                      THEN /\ resp' = Response("/predict_tokens", 500, "TypeError", NoBody)
                           /\ calls' = [NoCalls EXCEPT !.tokenizer = 2, !.on_none = TRUE]
                           /\ locals' = l
                      ELSE IF \E i \in 1..Len(masked_positions) :
                                 /\ predict_tokens_in_range(l.tokens_with_special,
                                                            masked_positions[i])
                                 /\ ~PyIndexOk(l.token_ids, masked_positions[i])
                      THEN /\ resp' = Response("/predict_tokens", 500, "IndexError", NoBody)
                           /\ calls' = [NoCalls EXCEPT !.tokenizer = 2, !.model = 1]
                           /\ locals' = l
                      ELSE /\ resp' = Response("/predict_tokens", 200, None,
                                 [success |-> TRUE, text |-> text, original_tokens |-> l.tokens,
                                  predictions |->
                                      predict_tokens_results(mlm_tokenizer, w, l, masked_positions)])
                           /\ calls' = [NoCalls EXCEPT !.tokenizer = 2, !.model = 1]
                           /\ locals' = l
    /\ pc' = "responded"
    /\ UNCHANGED <<registry, entry, load_vars>>

\* ------------------------------------------------------------- /predict_context
StartsWith(text, token) == Len(text) >= Len(token) /\ SubSeq(text, 1, Len(token)) = token

EndsWith(text, token) ==
    Len(text) >= Len(token) /\ SubSeq(text, Len(text) - Len(token) + 1, Len(text)) = token

\* top_predictions = torch.topk(predictions[0, pos], 3) and the entry built from it
predict_context_entry(kind, w, tokens, input_ids, position, pos) ==
    LET probs == Softmax(Logits(kind, w, input_ids, pos))
        indices == TopK([v \in DOMAIN probs |-> probs[v].num], 3, DOMAIN probs, (w + pos) % 2 = 0)
    IN  [position |-> position,
         original_token |-> tokens[pos + 1],
         predictions |-> [j \in 1..Len(indices) |-> Candidate(kind, probs, indices[j])]]

predict_context_locals(kind, text0, masked_positions) ==
    LET text1 == IF ~StartsWith(text0, cls_token(kind)) THEN cls_token(kind) \o <<" ">> \o text0
                 ELSE text0
        text == IF ~EndsWith(text1, sep_token(kind)) THEN text1 \o <<" ">> \o sep_token(kind)
                ELSE text1
        tokens == tokenize(kind, text)
        adjusted_positions == [i \in 1..Len(masked_positions) |-> masked_positions[i] + 1]
        masked_tokens == MaskLoop(tokens, adjusted_positions, mask_token(kind))
        masked_text == convert_tokens_to_string(kind, masked_tokens)
    IN  [text |-> text, tokens |-> tokens, adjusted_positions |-> adjusted_positions,
         masked_tokens |-> masked_tokens, masked_text |-> masked_text,
         input_ids |-> encode(kind, masked_text)]

predict_context_results(kind, w, l, masked_positions) ==
    LET kept == SelectSeq([i \in 1..Len(masked_positions) |-> i],
                          LAMBDA i : 0 <= l.adjusted_positions[i]
                                     /\ l.adjusted_positions[i] < Len(l.tokens))
    IN  [n \in 1..Len(kept) |->
            predict_context_entry(kind, w, l.tokens, l.input_ids, masked_positions[kept[n]],
                                  l.adjusted_positions[kept[n]])]

predict_context ==
    /\ pc = "serving"
    /\ \E json \in BOOLEAN, text \in PredictTexts(mlm_tokenizer) \cup {<<>>}, w \in Weights(mlm_model) :
       \E masked_positions \in PositionLists(text) :
          /\ json \/ (text = <<>> /\ masked_positions = <<>> /\ w = 0)
          /\ req' = [endpoint |-> "/predict_context", json |-> json, text |-> text,
                     masked_positions |-> masked_positions, w |-> w]
          /\ IF ~json
             THEN /\ resp' = Response("/predict_context", 500, "BadRequest", NoBody)
                  /\ calls' = NoCalls
                  /\ locals' = NoLocals
             ELSE IF no_text(text)
             THEN /\ resp' = Response("/predict_context", 400, "No text provided", NoBody)
                  /\ calls' = NoCalls
                  /\ locals' = NoLocals
             ELSE IF mlm_model = None \/ mlm_tokenizer = None
             THEN /\ resp' = Response("/predict_context", 500, "MLM model not loaded", NoBody)
                  /\ calls' = NoCalls
                  /\ locals' = NoLocals
             ELSE \E l \in {predict_context_locals(mlm_tokenizer, text, masked_positions)} :
                      IF \E i \in 1..Len(masked_positions) :
                             /\ 0 <= l.adjusted_positions[i]
                             /\ l.adjusted_positions[i] < Len(l.tokens)
                             /\ l.adjusted_positions[i] >= Len(l.input_ids)
                      THEN \* predictions[0, pos] past the last row of the model output
                           /\ resp' = Response("/predict_context", 500, "IndexError", NoBody)
                           /\ calls' = [NoCalls EXCEPT !.tokenizer = 3, !.model = 1]
                           /\ locals' = l
                      ELSE /\ resp' = Response("/predict_context", 200, None,
                                 [success |-> TRUE, text |-> l.text, masked_text |-> l.masked_text,
                                  predictions |->
                                      predict_context_results(mlm_tokenizer, w, l, masked_positions)])
                           /\ calls' = [NoCalls EXCEPT !.tokenizer = 3, !.model = 1]
                           /\ locals' = l
    /\ pc' = "responded"
    /\ UNCHANGED <<registry, entry, load_vars>>


\* ------------------------------------------------------------------ /embed_text
\* the check with `and` in place of `or`
embedding_and_tokenizer_missing == embedding_model = None /\ tokenizer = None

\* `if not embedding_model or not tokenizer`
embedding_not_loaded == embedding_model = None \/ tokenizer = None

\* texts is abstracted to the number of strings it holds (0: missing or empty)
embed_text ==
    /\ pc = "serving"
    /\ \E json \in BOOLEAN, texts \in 0..MaxTexts, task \in {None, "retrieval"} :
          /\ json \/ (texts = 0 /\ task = None)
          /\ req' = [endpoint |-> "/embed_text", json |-> json, texts |-> texts, task |-> task]
          /\ IF ~json
             THEN /\ resp' = Response("/embed_text", 500, "BadRequest", NoBody)
                  /\ calls' = NoCalls
             ELSE IF texts = 0
             THEN /\ resp' = Response("/embed_text", 400, "No texts provided", NoBody)
                  /\ calls' = NoCalls
             ELSE IF embedding_not_loaded
             THEN /\ resp' = Response("/embed_text", 500, "Embedding model not loaded", NoBody)
                  /\ calls' = NoCalls
             ELSE /\ resp' = Response("/embed_text", 200, None,
                        [success |-> TRUE, embeddings |-> texts,
                         task |-> IF task = None THEN "text-matching" ELSE task])
                  /\ calls' = [NoCalls EXCEPT !.embedding = 1]
    /\ locals' = NoLocals
    /\ pc' = "responded"
    /\ UNCHANGED <<registry, entry, load_vars>>

\* ----------------------------------------------------------------------- /test
\* tokenize_display_text: the words of the fixed sentence joined by single spaces
tokenize_display_text ==
    IF tokenizer = None THEN [error |-> "Tokenizer not loaded"]
    ELSE [error |-> None, match |-> TRUE, token_count |-> 13]

\* a view that re-points the display tokenizer at the MLM tokenizer
test_repoints_tokenizer ==
    /\ pc = "serving"
    /\ req' = [endpoint |-> "/test"]
    /\ resp' = Response("/test", 200, tokenize_display_text.error, tokenize_display_text)
    /\ calls' = IF tokenizer = None THEN NoCalls ELSE [NoCalls EXCEPT !.tokenizer = 2]
    /\ locals' = NoLocals
    /\ pc' = "responded"
    /\ tokenizer' = mlm_tokenizer
    /\ UNCHANGED <<mlm_model, mlm_tokenizer, embedding_model, entry, load_vars>>

\* the view returns the helper's dict, which Flask sends with status 200
test ==
    /\ pc = "serving"
    /\ req' = [endpoint |-> "/test"]
    /\ resp' = Response("/test", 200, tokenize_display_text.error, tokenize_display_text)
    /\ calls' = IF tokenizer = None THEN NoCalls ELSE [NoCalls EXCEPT !.tokenizer = 2]
    /\ locals' = NoLocals
    /\ pc' = "responded"
    /\ UNCHANGED <<registry, entry, load_vars>>

\* ------------------------------------------------------------------- /test_mlm
\* stand-in for the fixed sentence "Click the extension icon in your toolbar"
test_text == <<"a", " ", "a">>

test_positions == <<0>>

predict_tokens_for_test_locals(kind, text, positions) ==
    LET tokens == tokenize(kind, text)
        masked_tokens == MaskLoop(tokens, positions, mask_token(kind))
        masked_text == convert_tokens_to_string(kind, masked_tokens)
    IN  [tokens |-> tokens, masked_tokens |-> masked_tokens, masked_text |-> masked_text,
         input_ids |-> encode(kind, masked_text)]

predict_tokens_for_test_results(kind, w, l, positions) ==
    LET kept == SelectSeq(positions, LAMBDA pos : 0 <= pos /\ pos < Len(l.tokens))
    IN  [n \in 1..Len(kept) |->
            predict_context_entry(kind, w, l.tokens, l.input_ids, kept[n], kept[n] + 1)]

test_mlm ==
    /\ pc = "serving"
    /\ \E w \in Weights(mlm_model) :
          /\ req' = [endpoint |-> "/test_mlm", w |-> w]
          /\ IF mlm_model = None
             THEN /\ resp' = Response("/test_mlm", 500, "MLM model not loaded", NoBody)
                  /\ calls' = NoCalls
                  /\ locals' = NoLocals
             ELSE IF mlm_tokenizer = None
             THEN \* the helper's error dict, returned by the view with status 200
                  /\ resp' = Response("/test_mlm", 200, "MLM model not loaded", NoBody)
                  /\ calls' = NoCalls
                  /\ locals' = NoLocals
             ELSE LET l == predict_tokens_for_test_locals(mlm_tokenizer, test_text, test_positions)
                  IN  /\ resp' = Response("/test_mlm", 200, None,
                             [text |-> test_text, masked_text |-> l.masked_text,
                              predictions |-> predict_tokens_for_test_results(
                                                  mlm_tokenizer, w, l, test_positions)])
                      /\ calls' = [NoCalls EXCEPT !.tokenizer = 3, !.model = 1]
                      /\ locals' = l
    /\ pc' = "responded"
    /\ UNCHANGED <<registry, entry, load_vars>>

\* --------------------------------------------------------------------- /health
\* not getattr(tokenizer, 'do_lower_case', True): only the cased DistilBERT tokenizer
\* carries do_lower_case (False); as a string, so that it can be told from None
case_sensitive(tok) == IF tok = "distilbert" THEN "True" ELSE "False"

\* no tokenizer has lang_code_to_id, no checkpoint name contains 'multilingual'
multilingual(tok) == "False"

\* a health view that reads the names without testing the handles first
health_names_unguarded ==
    /\ pc = "serving"
    /\ req' = [endpoint |-> "/health"]
    /\ resp' = IF tokenizer = None \/ mlm_model = None
                THEN Response("/health", 500, "AttributeError", NoBody)
                ELSE Response("/health", 200, None,
                       [status |-> "healthy",
                        tokenizer_loaded |-> tokenizer # None,
                        mlm_model_loaded |-> mlm_model # None,
                        mlm_tokenizer_loaded |-> mlm_tokenizer # None,
                        embedding_model_loaded |-> embedding_model # None,
                        model_name |-> tokenizer,
                        mlm_model_name |-> mlm_model,
                        case_sensitive |-> case_sensitive(tokenizer),
                        multilingual |-> multilingual(tokenizer)])
    /\ calls' = NoCalls
    /\ locals' = NoLocals
    /\ pc' = "responded"
    /\ UNCHANGED <<registry, entry, load_vars>>

health ==
    /\ pc = "serving"
    /\ req' = [endpoint |-> "/health"]
    /\ resp' = Response("/health", 200, None,
                   [status |-> "healthy",
                    tokenizer_loaded |-> tokenizer # None,
                    mlm_model_loaded |-> mlm_model # None,
                    mlm_tokenizer_loaded |-> mlm_tokenizer # None,
                    embedding_model_loaded |-> embedding_model # None,
                    model_name |-> IF tokenizer # None THEN tokenizer ELSE None,
                    mlm_model_name |-> IF mlm_model # None THEN mlm_model ELSE None,
                    case_sensitive |-> IF tokenizer # None THEN case_sensitive(tokenizer)
                                       ELSE None,
                    multilingual |-> IF tokenizer # None THEN multilingual(tokenizer)
                                     ELSE None])
    /\ calls' = NoCalls
    /\ locals' = NoLocals
    /\ pc' = "responded"
    /\ UNCHANGED <<registry, entry, load_vars>>

\* -------------------------------------------------------------------------- /
\* the test page is sent from the working directory, or 404 when it is not there
index ==
    /\ pc = "serving"
    /\ req' = [endpoint |-> "/"]
    /\ \E present \in BOOLEAN :
          resp' = Response("/", IF present THEN 200 ELSE 404, None, NoBody)
    /\ calls' = NoCalls
    /\ locals' = NoLocals
    /\ pc' = "responded"
    /\ UNCHANGED <<registry, entry, load_vars>>

\* the response is sent; the request-scoped values are discarded
Respond ==
    /\ pc = "responded"
    /\ pc' = "serving"
    /\ req' = NoReq
    /\ resp' = NoResp
    /\ calls' = NoCalls
    /\ locals' = NoLocals
    /\ UNCHANGED <<registry, entry, load_vars>>

Handlers ==
    \/ tokenize_display
    \/ predict_tokens
    \/ predict_context
    \/ embed_text
    \/ test
    \/ test_mlm
    \/ health
    \/ index

Next ==
    \/ CallLoadModels
    \/ ServeWithoutLoad
    \/ load_models
    \/ Main
    \/ Handlers
    \/ Respond

Spec == Init /\ [][Next]_vars

\* the script goes on to the statement after the call once load_models has returned
FairSpec == Spec /\ WF_vars(Main)

\* =================================================================== claims
IsSuccess(endpoint) == resp.endpoint = endpoint /\ resp.status = 200

\* number of tokens of the caller's text under the loaded MLM tokenizer
NumTokens == Len(tokenize(mlm_tokenizer, req.text))

EntryPositions(predictions) == [i \in 1..Len(predictions) |-> predictions[i].position]

\* C1: every span returned by /tokenize_display satisfies
\* 0 <= start < end <= len(reconstructed), and each span starts at or after the
\* end of the span before it.
C1_SpansOrdered ==
    IsSuccess("/tokenize_display") =>
        LET tp == resp.body.token_positions
        IN  \A i \in 1..Len(tp) :
               /\ 0 <= tp[i].start
               /\ tp[i].start < tp[i].end
               /\ tp[i].end <= Len(resp.body.reconstructed)
               /\ i > 1 => tp[i].start >= tp[i - 1].end

\* two spans with a gap between them, and a token left out
C1_Witness ==
    /\ IsSuccess("/tokenize_display")
    /\ Len(resp.body.token_positions) = 2
    /\ Len(resp.body.original_tokens) = 3
    /\ resp.body.token_positions[2].start > resp.body.token_positions[1].end

\* C2 (as claimed): in /predict_tokens on a non-empty text of n tokens, with the MLM
\* checkpoint loaded, every requested position outside 0..n-1 is dropped: the request
\* succeeds and no entry of predictions has such a position.
C2_OutOfRangeDropped ==
    (/\ resp.endpoint = "/predict_tokens"
     /\ req.json
     /\ req.text # <<>>
     /\ mlm_tokenizer # None
     /\ mlm_model # None)
    => /\ resp.status = 200
       /\ \A i \in 1..Len(resp.body.predictions) :
             resp.body.predictions[i].position \in 0..(NumTokens - 1)

\* C3: on /tokenize_display, /predict_tokens and /predict_context a JSON object with
\* no text or an empty text gets 400 with an error, and no call is made on the
\* tokenizer or the model, whatever the registry holds.
C3_EmptyTextRejected ==
    (/\ resp.endpoint \in {"/tokenize_display", "/predict_tokens", "/predict_context"}
     /\ req.json
     /\ req.text = <<>>)
    => /\ resp.status = 400
       /\ resp.error # None
       /\ calls.tokenizer = 0
       /\ calls.model = 0
       /\ ~calls.on_none

\* an empty text refused by /predict_context while the MLM checkpoint is loaded
C3_Witness ==
    /\ resp.endpoint = "/predict_context"
    /\ req.json
    /\ req.text = <<>>
    /\ resp.status = 400
    /\ mlm_model # None
    /\ mlm_tokenizer # None

\* the distribution of the row an entry was read from
EntryRow(input_ids, e) ==
    Softmax(Logits(mlm_tokenizer, req.w, input_ids, e.position + 1))

RankedTopK(e, probs, k) ==
    LET c == e.predictions
        ids == {c[j].token_id : j \in 1..Len(c)}
    IN  /\ Len(c) = k
        /\ Cardinality(ids) = k
        /\ \A j \in 1..Len(c) :
              /\ c[j].token_id \in DOMAIN probs
              /\ c[j].probability = probs[c[j].token_id]
              /\ 0 <= c[j].probability.num
              /\ c[j].probability.num <= c[j].probability.den
              /\ c[j].probability.den > 0
              /\ j > 1 => c[j - 1].probability.num >= c[j].probability.num
        /\ \A u \in DOMAIN probs \ ids : \A j \in 1..Len(c) : probs[u].num <= c[j].probability.num

\* C4: every prediction entry carries exactly k candidates (5 in /predict_tokens, 3 in
\* /predict_context): the k vocabulary ids of highest probability in the row read, in
\* non-increasing order of probability, each probability between 0 and 1.
C4_TopKRanked ==
    /\ IsSuccess("/predict_tokens") =>
          \A i \in 1..Len(resp.body.predictions) :
             RankedTopK(resp.body.predictions[i],
                        EntryRow(locals.masked_token_ids, resp.body.predictions[i]), 5)
    /\ IsSuccess("/predict_context") =>
          \A i \in 1..Len(resp.body.predictions) :
             RankedTopK(resp.body.predictions[i],
                        EntryRow(locals.input_ids, resp.body.predictions[i]), 3)

\* an entry whose candidates are not all equally probable
C4_Witness ==
    /\ IsSuccess("/predict_tokens")
    /\ Len(resp.body.predictions) >= 1
    /\ LET c == resp.body.predictions[1].predictions
       IN  c[1].probability.num > c[5].probability.num

\* C5 (as claimed): predictions holds one entry per requested position that indexes a
\* token of the text, in request order, under the position the caller gave; an empty
\* list of positions gets a success response with no predictions.
C5_EntriesFollowRequest ==
    (/\ resp.endpoint \in {"/predict_tokens", "/predict_context"}
     /\ req.json
     /\ req.text # <<>>
     /\ mlm_tokenizer # None
     /\ mlm_model # None)
    => /\ resp.status = 200 =>
             EntryPositions(resp.body.predictions)
                = SelectSeq(req.masked_positions, LAMBDA p : 0 <= p /\ p < NumTokens)
       /\ req.masked_positions = <<>> =>
             resp.status = 200 /\ resp.body.predictions = <<>>

\* the response says the MLM checkpoint is missing, and nothing was called to find out
NotLoadedSignalled ==
    /\ resp.status = 500
    /\ resp.error = "MLM model not loaded"
    /\ calls.tokenizer = 0
    /\ calls.model = 0
    /\ ~calls.on_none

\* C6 (as claimed): when the MLM model or its tokenizer is not loaded, a request that
\* passed validation on an endpoint needing the missing handle is answered with a
\* 'model not loaded' error, and no call is attempted on the missing handle.
C6_MissingModelSignalled ==
    /\ (/\ resp.endpoint = "/tokenize_display"
        /\ req.json
        /\ req.text # <<>>
        /\ mlm_tokenizer = None) => NotLoadedSignalled
    /\ (/\ resp.endpoint \in {"/predict_tokens", "/predict_context"}
        /\ req.json
        /\ req.text # <<>>
        /\ (mlm_model = None \/ mlm_tokenizer = None)) => NotLoadedSignalled
    /\ (/\ resp.endpoint = "/test_mlm"
        /\ (mlm_model = None \/ mlm_tokenizer = None)) => NotLoadedSignalled

\* C7 (as claimed): on every endpoint a response that reports an error has status 400
\* or 500, whatever the registry holds.
C7_ErrorsCarryErrorStatus ==
    resp.error # None => resp.status \in {400, 500}

Loaded(name) == \E i \in 1..Len(attempted) : attempted[i].name = name /\ attempted[i].ok

Failed(name) == \E i \in 1..Len(attempted) : attempted[i].name = name /\ ~attempted[i].ok

RobertaLoaded == Loaded("roberta_tokenizer") /\ Loaded("roberta_model")

DistilbertLoaded == Loaded("distilbert_tokenizer") /\ Loaded("distilbert_model")

RobertaFailed == Failed("roberta_tokenizer") \/ Failed("roberta_model")

DistilbertFailed == Failed("distilbert_tokenizer") \/ Failed("distilbert_model")

\* C8 (as claimed): load_models reports failure only when none of the Jina tokenizer,
\* RoBERTa and DistilBERT loaded.
C8_FailsOnlyIfNothingLoaded ==
    (pc = "returned" /\ load_result = "False")
    => ~Loaded("jina_tokenizer") /\ ~RobertaLoaded /\ ~DistilbertLoaded

\* C8 (amended): load_models reports failure exactly when RoBERTa failed to load and
\* the DistilBERT fallback, tried after it, failed too, whether or not the Jina
\* tokenizer loaded; with an MLM checkpoint loaded, the failure of the Jina tokenizer,
\* of the Jina embedding model or of RoBERTa does not abort startup.
C8_FailsIffBothMlmCheckpointsFailed ==
    pc = "returned" =>
        /\ load_result \in {"True", "False"}
        /\ load_result = "False" <=> (RobertaFailed /\ DistilbertFailed)
        /\ load_result = "True" <=> (RobertaLoaded \/ DistilbertLoaded)

\* startup reported as failed although the Jina tokenizer loaded
C8_Witness ==
    /\ pc = "returned"
    /\ load_result = "False"
    /\ Loaded("jina_tokenizer")
    /\ tokenizer = "jina"

\* C9: once load_models has returned (or has been skipped), no step changes the
\* registry: the four handles stay what they were across every request.
C9_RegistryReadOnly ==
    [][(pc \in {"returned", "serving", "responded", "exited"}) => (registry' = registry)]_vars

\* a request answered from a fully loaded registry
C9_Witness ==
    /\ pc = "responded"
    /\ resp.endpoint = "/embed_text"
    /\ resp.status = 200
    /\ embedding_model = "jina"
    /\ mlm_model # None

\* C10: /embed_text answers 400 when texts is missing or empty, whatever the registry
\* holds, and 500 with an error when texts is non-empty but the embedding model or
\* the tokenizer is not loaded; the embedding backend is called in neither case.
C10_EmbedTextGuards ==
    (resp.endpoint = "/embed_text" /\ req.json) =>
        /\ req.texts = 0 =>
              /\ resp.status = 400
              /\ resp.error # None
              /\ calls.embedding = 0
              /\ ~calls.on_none
        /\ (req.texts > 0 /\ (embedding_model = None \/ tokenizer = None)) =>
              /\ resp.status = 500
              /\ resp.error # None
              /\ calls.embedding = 0
              /\ ~calls.on_none

\* texts given, a tokenizer loaded, but no embedding model
C10_Witness ==
    /\ resp.endpoint = "/embed_text"
    /\ req.json
    /\ req.texts > 0
    /\ tokenizer # None
    /\ embedding_model = None
    /\ resp.status = 500

\* C11: /health answers 200 in every registry state, the empty one included; each
\* loaded flag is true exactly when its handle is set, and the name fields (and the
\* fields derived from the tokenizer) of an absent handle are null.
C11_HealthReportsRegistry ==
    resp.endpoint = "/health" =>
        /\ resp.status = 200
        /\ resp.error = None
        /\ resp.body.tokenizer_loaded <=> tokenizer # None
        /\ resp.body.mlm_model_loaded <=> mlm_model # None
        /\ resp.body.mlm_tokenizer_loaded <=> mlm_tokenizer # None
        /\ resp.body.embedding_model_loaded <=> embedding_model # None
        /\ resp.body.model_name = tokenizer
        /\ resp.body.mlm_model_name = mlm_model
        /\ tokenizer = None =>
              resp.body.case_sensitive = None /\ resp.body.multilingual = None
        /\ ~calls.on_none

\* /health answered with nothing loaded
C11_Witness ==
    /\ resp.endpoint = "/health"
    /\ resp.status = 200
    /\ tokenizer = None
    /\ mlm_model = None
    /\ mlm_tokenizer = None
    /\ embedding_model = None
    /\ ~resp.body.tokenizer_loaded
    /\ resp.body.model_name = None

\* C12: run as a script, the process serves requests only after load_models returned
\* True: serving is entered from the return of load_models only, and only on True;
\* when load_models returned False the process exits (exit(1)) and, once exited,
\* never serves a request.
C12_ServesOnlyAfterSuccess ==
    /\ [][entry = "main" =>
             /\ (pc' \in {"serving", "responded"}) =>
                    /\ load_result' = "True"
                    /\ pc \in {"returned", "serving", "responded"}
             /\ (pc = "returned" /\ load_result = "False") => (pc' = "exited")
             /\ (pc = "exited") => (pc' = "exited")]_vars
    /\ (entry = "main" /\ pc = "returned" /\ load_result = "False") ~> (pc = "exited")
    /\ (entry = "main" /\ pc = "returned" /\ load_result = "True") ~> (pc = "serving")

\* the script has exited after a failed load that left handles set
C12_Witness ==
    /\ entry = "main"
    /\ pc = "exited"
    /\ load_result = "False"
    /\ tokenizer = "jina"
    /\ mlm_tokenizer = "roberta"
    /\ resp = NoResp

\* the cursor before iteration i of the alignment loop
CursorBefore(cursors, i) == IF i = 1 THEN 0 ELSE cursors[i - 1]

\* token i can be located: its cleaned form is not empty and occurs at or after the cursor
Locatable(body, cursors, i) ==
    LET clean == CleanToken(body.original_tokens[i])
    IN  /\ clean # <<>>
        /\ \E j \in CursorBefore(cursors, i)..Len(body.reconstructed) :
               IsPrefixAt(body.reconstructed, clean, j)

\* C13: in the alignment loop of /tokenize_display the cursor never decreases; it
\* changes only at a token that is located, and then becomes the end offset of that
\* token's entry; a token whose cleaned form is empty or is not found at or after the
\* cursor gets no entry and leaves the cursor where it was, and the request succeeds.
C13_CursorMonotone ==
    (/\ resp.endpoint = "/tokenize_display"
     /\ req.json
     /\ req.text # <<>>
     /\ mlm_tokenizer # None)
    => /\ resp.status = 200
       /\ LET body == resp.body
               cursors == locals.cursors
               n == Len(body.original_tokens)
               located == {i \in 1..n : Locatable(body, cursors, i)}
               rank(i) == Cardinality({j \in located : j <= i})
           IN  /\ Len(cursors) = n
               /\ Len(body.token_positions) = Cardinality(located)
               /\ \A i \in 1..n :
                     /\ cursors[i] >= CursorBefore(cursors, i)
                     /\ i \in located =>
                           /\ body.token_positions[rank(i)].original_token
                                 = body.original_tokens[i]
                           /\ cursors[i] = body.token_positions[rank(i)].end
                     /\ i \notin located => cursors[i] = CursorBefore(cursors, i)

\* three tokens: the first located, the second not found, the third located further on
C13_Witness ==
    /\ IsSuccess("/tokenize_display")
    /\ Len(locals.cursors) = 3
    /\ locals.cursors[1] = 1
    /\ CleanToken(resp.body.original_tokens[2]) # <<>>
    /\ locals.cursors[2] = 1
    /\ locals.cursors[3] = 3

HasPrefix(token, prefix) ==
    Len(token) >= Len(prefix) /\ SubSeq(token, 1, Len(prefix)) = prefix

\* the cleaned form the claim describes, derived from the prefix marker only
CleanedByPrefix(token) ==
    IF HasPrefix(token, <<"#", "#">>) THEN SubSeq(token, 3, Len(token))
    ELSE IF HasPrefix(token, <<"G">>) \/ HasPrefix(token, <<"_">>)
         THEN <<" ">> \o SubSeq(token, 2, Len(token))
    ELSE token

\* C14 (as claimed): the cleaned form /tokenize_display reports for a raw token is
\* derived from its prefix marker: '##' is stripped (continuation, no leading space);
\* U+0120 or U+2581 is stripped and a space is prepended (word start); a token with
\* no marker is unchanged; and a token whose form so cleaned is not empty has an
\* entry when that form occurs in the reconstructed text.
C14_CleanedByPrefixMarker ==
    IsSuccess("/tokenize_display") =>
        /\ \A i \in 1..Len(resp.body.token_positions) :
               resp.body.token_positions[i].token
                  = CleanedByPrefix(resp.body.token_positions[i].original_token)
        /\ \A i \in 1..Len(resp.body.original_tokens) :
               HasPrefix(resp.body.original_tokens[i], <<"#", "#">>) =>
                  \E k \in 1..Len(resp.body.token_positions) :
                     resp.body.token_positions[k].original_token = resp.body.original_tokens[i]

\* the adjusted indices p+1 of the requested positions that lie within a sequence of length len
ValidAdjusted(masked_positions, len) ==
    {masked_positions[i] + 1 : i \in 1..Len(masked_positions)} \cap (0..(len - 1))

BoundaryPair(kind) ==
    IF bos_token(kind) # NoToken /\ eos_token(kind) # NoToken
    THEN <<bos_token(kind), eos_token(kind)>>
    ELSE <<cls_token(kind), sep_token(kind)>>

\* C16 (as claimed): whichever MLM tokenizer is loaded, /predict_tokens wraps the n
\* token ids in that tokenizer's boundary pair (bos/eos if it has one, else cls/sep):
\* the marked sequence has length n+2, with a defined boundary id at both ends.
C16_BoundaryPairDefined ==
    (/\ resp.endpoint = "/predict_tokens"
     /\ req.json
     /\ req.text # <<>>
     /\ mlm_tokenizer # None)
    => LET marked == locals.token_ids_with_special
           pair == BoundaryPair(mlm_tokenizer)
       IN  /\ Len(marked) = NumTokens + 2
           /\ marked[1] # NoId
           /\ marked[Len(marked)] # NoId
           /\ marked[1] = TokenId(mlm_tokenizer, pair[1])
           /\ marked[Len(marked)] = TokenId(mlm_tokenizer, pair[2])
           /\ locals.tokens_with_special[1] = pair[1]

\* C17 (as claimed): for every entry /predict_tokens returns with position p, the
\* element replaced by the mask is token p of the text (index p+1 of the marked
\* sequence, never a boundary), the row read is that same index p+1, and
\* original_token and original_probability are those of tokens[p], the masked token.
C17_EntryRefersToMaskedToken ==
    IsSuccess("/predict_tokens") =>
        \A i \in 1..Len(resp.body.predictions) :
           LET e == resp.body.predictions[i]
               p == e.position
               row == EntryRow(locals.masked_token_ids, e)
           IN  /\ p \in 0..(Len(locals.tokens) - 1)
               /\ locals.masked_token_ids[p + 2] = mask_token_id(mlm_tokenizer)
               /\ locals.token_ids_with_special[p + 2] = locals.token_ids[p + 1]
               /\ e.original_token = locals.tokens[p + 1]
               /\ e.original_probability = row[locals.token_ids[p + 1]]
               /\ \A j \in 1..Len(e.predictions) :
                      e.predictions[j].probability = row[e.predictions[j].token_id]

\* C18 (as claimed): in /predict_context, for a requested position p that indexes a
\* token of the caller's text, the distribution reported is that of the model-output
\* row whose input element is the mask substituted for p, and original_token is
\* token p of the caller's text.
C18_ContextRowIsMaskRow ==
    IsSuccess("/predict_context") =>
        \A i \in 1..Len(resp.body.predictions) :
           LET e == resp.body.predictions[i]
               p == e.position
               row == EntryRow(locals.input_ids, e)
           IN  p \in 0..(NumTokens - 1) =>
                  /\ \A j \in 1..Len(e.predictions) :
                         e.predictions[j].probability = row[e.predictions[j].token_id]
                  /\ locals.input_ids[p + 2] = mask_token_id(mlm_tokenizer)
                  /\ e.original_token = tokenize(mlm_tokenizer, req.text)[p + 1]

\* C19: whenever load_models returns True, whichever loads failed: tokenizer,
\* mlm_tokenizer and mlm_model are set; mlm_tokenizer and mlm_model are of the same
\* checkpoint; DistilBERT was attempted only after a RoBERTa load failed; tokenizer is
\* the MLM tokenizer when the Jina tokenizer failed (and the Jina tokenizer when it
\* loaded); embedding_model is set only if the Jina tokenizer loaded.
C19_SuccessPostconditions ==
    /\ \A i \in 1..Len(attempted) :
          attempted[i].name \in {"distilbert_tokenizer", "distilbert_model"} =>
             \E j \in 1..(i - 1) :
                /\ attempted[j].name \in {"roberta_tokenizer", "roberta_model"}
                /\ ~attempted[j].ok
    /\ (pc = "returned" /\ load_result = "True") =>
          /\ tokenizer # None
          /\ mlm_tokenizer # None
          /\ mlm_model # None
          /\ mlm_tokenizer = mlm_model
          /\ mlm_model = "roberta" <=> RobertaLoaded
          /\ mlm_model = "distilbert" <=> (RobertaFailed /\ DistilbertLoaded)
          /\ Failed("jina_tokenizer") => tokenizer = mlm_tokenizer
          /\ Loaded("jina_tokenizer") => tokenizer = "jina"
          /\ embedding_model # None =>
                Loaded("jina_tokenizer") /\ Loaded("embedding_model")

\* success on the fallback after the RoBERTa tokenizer had loaded and its model had
\* not, with the Jina tokenizer loaded and the Jina embedding model not
C19_Witness ==
    /\ pc = "returned"
    /\ load_result = "True"
    /\ Loaded("roberta_tokenizer")
    /\ Failed("roberta_model")
    /\ mlm_tokenizer = "distilbert"
    /\ mlm_model = "distilbert"
    /\ tokenizer = "jina"
    /\ Failed("embedding_model")
    /\ embedding_model = None

\* s[start:end] of Python for 0 <= start <= end <= len(s)
Slice(s, start, end) == SubSeq(s, start + 1, end)

\* C20: for every entry of token_positions returned by /tokenize_display,
\* reconstructed[start:end] is the entry's token (the cleaned token), and end - start
\* is the length of that token.
C20_SpanHoldsToken ==
    IsSuccess("/tokenize_display") =>
        \A i \in 1..Len(resp.body.token_positions) :
           LET e == resp.body.token_positions[i]
           IN  /\ e.token = CleanToken(e.original_token)
               /\ 0 <= e.start
               /\ e.end <= Len(resp.body.reconstructed)
               /\ Slice(resp.body.reconstructed, e.start, e.end) = e.token
               /\ e.end - e.start = Len(e.token)

\* an entry that starts past the beginning of the text, for a token with a marker
C20_Witness ==
    /\ IsSuccess("/tokenize_display")
    /\ Len(resp.body.token_positions) = 2
    /\ resp.body.token_positions[2].original_token = <<"G", "a">>
    /\ resp.body.token_positions[2].token = <<"a">>
    /\ resp.body.token_positions[2].start = 2
    /\ resp.body.token_positions[2].end = 3
    /\ resp.body.reconstructed = <<"a", " ", "a">>

\* the raw-token index of the k-th entry: the k-th smallest index of the located tokens
RawIndex(located, k) ==
    CHOOSE i \in located : Cardinality({j \in located : j <= i}) = k

\* C21: in every /tokenize_display response token_positions is an order-preserving
\* subsequence of the raw token list: the k-th entry carries the original_token and
\* the token_id of the k-th raw token that was located, so the raw indices increase
\* strictly; token_count is len(token_positions) and at most len(original_tokens);
\* and the k-th entry is the k-th raw token exactly when none of the first k raw
\* tokens was skipped.
C21_EntriesAreSubsequence ==
    IsSuccess("/tokenize_display") =>
        LET body == resp.body
            tp == body.token_positions
            n == Len(body.original_tokens)
            ids == convert_tokens_to_ids(mlm_tokenizer, body.original_tokens)
            located == {i \in 1..n : Locatable(body, locals.cursors, i)}
        IN  /\ body.original_tokens = tokenize(mlm_tokenizer, req.text)
            /\ body.token_count = Len(tp)
            /\ body.token_count <= n
            /\ Len(tp) = Cardinality(located)
            /\ \A k \in 1..Len(tp) :
                  LET i == RawIndex(located, k)
                  IN  /\ tp[k].original_token = body.original_tokens[i]
                      /\ tp[k].token_id = ids[i]
                      /\ i >= k
                      /\ k > 1 => i > RawIndex(located, k - 1)
                      /\ (i = k) <=> (\A j \in 1..k : j \in located)

\* the first raw token was skipped: the entries are raw tokens 2 and 3, and the second
\* entry carries the same token as raw token 2 without being it
C21_Witness ==
    /\ IsSuccess("/tokenize_display")
    /\ resp.body.original_tokens = << <<"C">>, <<"a">>, <<"a">> >>
    /\ resp.body.token_count = 2
    /\ resp.body.token_positions[1].original_token = <<"a">>
    /\ resp.body.token_positions[2].original_token = resp.body.original_tokens[2]
    /\ resp.body.token_positions[2].start = 2

====
